---- MODULE Spec2Model ----
(***************************************************************************)
(* Tracker callbacks of dev/local/callback/tracker.py                      *)
(* (TerminateOnNaNCallback, TrackerCallback, EarlyStoppingCallback,        *)
(* SaveModelCallback, ReduceLROnPlateau) driven by the fit loop of the     *)
(* Learner and by the Recorder.  The Learner, the Recorder and the model   *)
(* persistence are collaborators whose code is not in tracker.py; they are *)
(* modelled from the interfaces the specification gives for them.          *)
(***************************************************************************)
EXTENDS Integers, Sequences, FiniteSets, TLC

(***************************************************************************)
(* Bounds of the model.                                                    *)
(***************************************************************************)
\* finite metric values are 0..MaxVal (plus +inf and NaN)
MaxVal == 3
\* patience ranges over 1..MaxPatience
MaxPatience == 2
\* n_epoch of the fits with one tracker (SpecES, SpecSave, SpecLR)
EpochsES == 5
EpochsSave == 4
EpochsLR == 3
\* n_epoch of the fits with a tracker built from every constructor argument
EpochsTrack == 3
\* n_epoch and batches per epoch of the fits with several callbacks
EpochsFit == 2
BatchesFit == 2
\* number of fit() calls in the specifications with several fits
MaxFits == 2

(***************************************************************************)
(* Floating point values: finite numbers, the two infinities and NaN.      *)
(* Unset stands for an attribute that has not been assigned yet.           *)
(***************************************************************************)
Fin(n) == [k |-> "fin", v |-> n]
PosInf == [k |-> "inf", v |-> 1]
NegInf == [k |-> "inf", v |-> -1]
NaN == [k |-> "nan", v |-> 0]
Unset == [k |-> "unset", v |-> 0]

isinf(x) == x.k = "inf"
isnan(x) == x.k = "nan"

\* x - d for a finite number d
Sub(x, d) == IF x.k = "fin" THEN Fin(x.v - d) ELSE x

\* x < y on floats: false as soon as one side is NaN
np_less(x, y) ==
    CASE x.k = "fin" /\ y.k = "fin" -> x.v < y.v
      [] x.k = "inf" /\ y.k = "inf" -> x.v < y.v
      [] x.k = "fin" /\ y.k = "inf" -> y.v = 1
      [] x.k = "inf" /\ y.k = "fin" -> x.v = -1
      [] OTHER -> FALSE

np_greater(x, y) == np_less(y, x)

\* self.comp(a, b) for the two comparators the module uses
comp_call(comp, a, b) == IF comp = "less" THEN np_less(a, b) ELSE np_greater(a, b)

\* the metric values a recorder row can hold
Vals == {Fin(n) : n \in 0..MaxVal} \cup {PosInf, NaN}

(***************************************************************************)
(* Names are sequences of characters, so that 'loss' in monitor is the     *)
(* substring test it is in the code.                                       *)
(***************************************************************************)
s_loss == <<"l", "o", "s", "s">>
s_train_loss == <<"t", "r", "a", "i", "n", "_", "l", "o", "s", "s">>
s_valid_loss == <<"v", "a", "l", "i", "d", "_", "l", "o", "s", "s">>
s_accuracy == <<"a", "c", "c", "u", "r", "a", "c", "y">>
s_error_rate == <<"e", "r", "r", "o", "r", "_", "r", "a", "t", "e">>
s_valid_Loss == <<"v", "a", "l", "i", "d", "_", "L", "o", "s", "s">>
s_loss_ratio == <<"l", "o", "s", "s", "_", "r", "a", "t", "i", "o">>

\* sub in s
Contains(s, sub) ==
    \E i \in 1..(Len(s) - Len(sub) + 1) : SubSeq(s, i, i + Len(sub) - 1) = sub

\* x in xs
InSeq(x, xs) == \E i \in 1..Len(xs) : xs[i] = x

\* xs.index(x): 0-based position of the first occurrence
index(xs, x) == (CHOOSE i \in 1..Len(xs) : xs[i] = x /\ \A j \in 1..(i - 1) : xs[j] # x) - 1

Last(xs) == xs[Len(xs)]

(***************************************************************************)
(* Recorder interface: metric_names has the training loss at index 0 and   *)
(* the validation metrics after it; every row of values uses the same      *)
(* indexing.                                                               *)
(***************************************************************************)
metric_names == <<s_train_loss, s_valid_loss, s_accuracy>>

NCols == Len(metric_names)

\* rows in which the columns of cols range over vals and the others are 0
RowsOver(cols, vals) ==
    {r \in [1..NCols -> vals \cup {Fin(0)}] :
        \A c \in 1..NCols : c \notin cols => r[c] = Fin(0)}

RowsVarying(cols) == RowsOver(cols, Vals)

\* the metric values of the scenarios with several fits
ValsFew == {Fin(0), Fin(1), NaN}

VARIABLES
    arg,        \* the scenario: callbacks in dispatch order, fit arguments, inputs
    pc,         \* position of the fit loop: the event being dispatched
    queue,      \* callbacks whose handler of the current event is still to run
    fits,       \* number of fit() calls started
    epoch,      \* learn.epoch
    iter,       \* learn.iter: batch index in the epoch
    loss,       \* learn.loss: loss of the last batch
    steps,      \* number of optimizer steps taken in the session
    model,      \* weights in memory, named by the step that produced them
    hypers,     \* opt.hypers: learning rate of every hyperparameter group
    files,      \* checkpoints in the model directory: name -> weights (or NoFile)
    exc,        \* exception fit() propagated to its caller
    stopped,    \* callback that raised CancelFitException in this fit
    recorder,   \* Recorder: values (rows of this fit) and losses
    es,         \* the EarlyStoppingCallback object
    sm,         \* the SaveModelCallback object
    lr,         \* the ReduceLROnPlateau object
    saves,      \* learn.save calls of this fit
    loads,      \* learn.load calls of the session
    ended,      \* number of runs of SaveModelCallback.on_train_end in the session
    left,       \* best and wait of the trackers as the previous fit left them
    printed     \* what the callbacks printed or displayed in this fit

vars == <<arg, pc, queue, fits, epoch, iter, loss, steps, model, hypers, files,
          exc, stopped, recorder, es, sm, lr, saves, loads, ended, left, printed>>

NoFile == -1

(***************************************************************************)
(* TrackerCallback                                                         *)
(***************************************************************************)
\* __init__ whose default is np.less for the monitors that end with 'loss'
TrackerCallback_init_suffix(monitor, comp, min_delta) ==
    LET n == Len(monitor)
        c == IF comp = "None"
             THEN (IF n >= 4 /\ SubSeq(monitor, n - 3, n) = s_loss
                   THEN "less" ELSE "greater")
             ELSE comp
        d == IF c = "less" THEN min_delta * (-1) ELSE min_delta
    IN [monitor |-> monitor, comp |-> c, min_delta |-> d,
        best |-> Unset, new_best |-> "unset", idx |-> -1]

TrackerCallback_init(monitor, comp, min_delta) ==
    LET c == IF comp = "None"
             THEN (IF Contains(monitor, s_loss) THEN "less" ELSE "greater")
             ELSE comp
        d == IF c = "less" THEN min_delta * (-1) ELSE min_delta
    IN [monitor |-> monitor, comp |-> c, min_delta |-> d,
        best |-> Unset, new_best |-> "unset", idx |-> -1]

\* begin_fit without the assertion: a monitor that is not found gets index 0
TrackerCallback_begin_fit_unchecked(self, names) ==
    LET s1 == [self EXCEPT !.best = IF self.comp = "less" THEN PosInf ELSE NegInf]
    IN [self |-> [s1 EXCEPT !.idx = IF InSeq(self.monitor, Tail(names))
                                    THEN index(Tail(names), self.monitor)
                                    ELSE 0],
        raised |-> "none"]

\* begin_fit that sets best only when it has never been set
TrackerCallback_begin_fit_keep(self, names) ==
    LET s1 == IF self.best = Unset
              THEN [self EXCEPT !.best = IF self.comp = "less" THEN PosInf ELSE NegInf]
              ELSE self
    IN IF ~InSeq(self.monitor, Tail(names))
       THEN [self |-> s1, raised |-> "AssertionError"]
       ELSE [self |-> [s1 EXCEPT !.idx = index(Tail(names), self.monitor)],
             raised |-> "none"]

\* the result of begin_fit: the object, and the exception raised ("none" if none)
TrackerCallback_begin_fit(self, names) ==
    LET s1 == [self EXCEPT !.best = IF self.comp = "less" THEN PosInf ELSE NegInf]
    IN IF ~InSeq(self.monitor, Tail(names))
       THEN [self |-> s1, raised |-> "AssertionError"]
       ELSE [self |-> [s1 EXCEPT !.idx = index(Tail(names), self.monitor)],
             raised |-> "none"]

\* val = self.recorder.values[-1][self.idx]
monitored(self, values) == Last(values)[self.idx + 1]

improved(self, val) == comp_call(self.comp, Sub(val, self.min_delta), self.best)

\* after_epoch that compares the value itself, without min_delta
TrackerCallback_after_epoch_loose(self, values) ==
    LET val == monitored(self, values)
    IN IF comp_call(self.comp, val, self.best)
       THEN [self EXCEPT !.best = val, !.new_best = "True"]
       ELSE [self EXCEPT !.new_best = "False"]

\* after_epoch that sets new_best but does not keep the value as best
TrackerCallback_after_epoch_nobest(self, values) ==
    LET val == monitored(self, values)
    IN IF improved(self, val)
       THEN [self EXCEPT !.new_best = "True"]
       ELSE [self EXCEPT !.new_best = "False"]

\* after_epoch that keeps every value as best
TrackerCallback_after_epoch_always(self, values) ==
    LET val == monitored(self, values)
    IN IF improved(self, val)
       THEN [self EXCEPT !.best = val, !.new_best = "True"]
       ELSE [self EXCEPT !.best = val, !.new_best = "False"]

TrackerCallback_after_epoch(self, values) ==
    LET val == monitored(self, values)
    IN IF improved(self, val)
       THEN [self EXCEPT !.best = val, !.new_best = "True"]
       ELSE [self EXCEPT !.new_best = "False"]

(***************************************************************************)
(* EarlyStoppingCallback                                                   *)
(***************************************************************************)
EarlyStoppingCallback_init(monitor, comp, min_delta, patience) ==
    TrackerCallback_init(monitor, comp, min_delta) @@ [patience |-> patience, wait |-> -1]

\* f'No improvement since epoch {since}: early stopping'
EarlyStoppingCallback_message(since) ==
    [by |-> "EarlyStoppingCallback",
     text |-> <<"No improvement since epoch ", since, ": early stopping">>]

\* after_epoch with the test self.wait > self.patience: one epoch late
EarlyStoppingCallback_after_epoch_late(self, values, e) ==
    LET t == TrackerCallback_after_epoch(self, values)
    IN IF t.new_best = "True"
       THEN [self |-> [t EXCEPT !.wait = 0], cancel |-> FALSE, print |-> <<>>]
       ELSE LET w == t.wait + 1
            IN [self |-> [t EXCEPT !.wait = w],
                cancel |-> w > t.patience,
                print |-> IF w > t.patience
                          THEN <<EarlyStoppingCallback_message(e - w)>>
                          ELSE <<>>]

\* after_epoch whose message names the current epoch
EarlyStoppingCallback_after_epoch_names_current(self, values, e) ==
    LET t == TrackerCallback_after_epoch(self, values)
    IN IF t.new_best = "True"
       THEN [self |-> [t EXCEPT !.wait = 0], cancel |-> FALSE, print |-> <<>>]
       ELSE LET w == t.wait + 1
            IN [self |-> [t EXCEPT !.wait = w],
                cancel |-> w >= t.patience,
                print |-> IF w >= t.patience
                          THEN <<EarlyStoppingCallback_message(e)>>
                          ELSE <<>>]

\* the result of after_epoch in epoch e: the object, whether
\* CancelFitException is raised, and the lines printed
EarlyStoppingCallback_after_epoch(self, values, e) ==
    LET t == TrackerCallback_after_epoch(self, values)
    IN IF t.new_best = "True"
       THEN [self |-> [t EXCEPT !.wait = 0], cancel |-> FALSE, print |-> <<>>]
       ELSE LET w == t.wait + 1
            IN [self |-> [t EXCEPT !.wait = w],
                cancel |-> w >= t.patience,
                print |-> IF w >= t.patience
                          THEN <<EarlyStoppingCallback_message(e - w)>>
                          ELSE <<>>]

(***************************************************************************)
(* SaveModelCallback                                                       *)
(***************************************************************************)
SaveModelCallback_init(monitor, comp, min_delta, fname, every_epoch) ==
    TrackerCallback_init(monitor, comp, min_delta)
        @@ [fname |-> fname, every_epoch |-> every_epoch]

\* f'{fname}' and f'{fname}_{epoch}'
bare_name(fname) == <<fname>>
epoch_name(fname, e) == <<fname, "_", e>>

\* after_epoch that saves under the bare name whether or not the epoch set a
\* new best
SaveModelCallback_after_epoch_always(self, values, e) ==
    IF self.every_epoch
    THEN [self |-> self, save |-> {epoch_name(self.fname, e)}]
    ELSE [self |-> TrackerCallback_after_epoch(self, values),
          save |-> {bare_name(self.fname)}]

\* after_epoch that updates the tracker in both modes
SaveModelCallback_after_epoch_tracks(self, values, e) ==
    LET t == TrackerCallback_after_epoch(self, values)
    IN IF self.every_epoch
       THEN [self |-> t, save |-> {epoch_name(self.fname, e)}]
       ELSE [self |-> t,
             save |-> IF t.new_best = "True" THEN {bare_name(self.fname)} ELSE {}]

\* the result of after_epoch: the object, and the names learn.save is called with
SaveModelCallback_after_epoch(self, values, e) ==
    IF self.every_epoch
    THEN [self |-> self, save |-> {epoch_name(self.fname, e)}]
    ELSE LET t == TrackerCallback_after_epoch(self, values)
         IN [self |-> t,
             save |-> IF t.new_best = "True" THEN {bare_name(self.fname)} ELSE {}]

\* (self.learn.path/f'{self.learn.model_dir}/{self.fname}.pth').is_file()
is_file(fs, name) == name \in DOMAIN fs /\ fs[name] # NoFile

\* on_train_end without the test that the file exists
SaveModelCallback_on_train_end_unguarded(self, fs) ==
    IF ~self.every_epoch THEN {bare_name(self.fname)} ELSE {}

\* on_train_end: the names learn.load is called with
SaveModelCallback_on_train_end(self, fs) ==
    IF ~self.every_epoch /\ is_file(fs, bare_name(self.fname))
    THEN {bare_name(self.fname)}
    ELSE {}

(***************************************************************************)
(* ReduceLROnPlateau                                                       *)
(***************************************************************************)
ReduceLROnPlateau_init(monitor, comp, min_delta, patience, factor) ==
    TrackerCallback_init(monitor, comp, min_delta)
        @@ [patience |-> patience, factor |-> factor, wait |-> -1]

\* h['lr'] /= factor on a learning rate kept as the fraction num/den
lr_div(h, factor) == [h EXCEPT !.den = h.den * factor]

\* f'Epoch {e}: reducing lr to {hs[-1]["lr"]}'
ReduceLROnPlateau_message(e, hs) ==
    [by |-> "ReduceLROnPlateau",
     text |-> <<"Epoch ", e, ": reducing lr to ", hs[Len(hs)]>>]

\* after_epoch that divides the learning rate of the last group only
ReduceLROnPlateau_after_epoch_last(self, values, hs, e) ==
    LET t == TrackerCallback_after_epoch(self, values)
    IN IF t.new_best = "True"
       THEN [self |-> [t EXCEPT !.wait = 0], hypers |-> hs, print |-> <<>>]
       ELSE IF t.wait + 1 >= t.patience
            THEN LET hs2 == [hs EXCEPT ![Len(hs)] = lr_div(hs[Len(hs)], t.factor)]
                 IN [self |-> [t EXCEPT !.wait = 0], hypers |-> hs2,
                     print |-> <<ReduceLROnPlateau_message(e, hs2)>>]
            ELSE [self |-> [t EXCEPT !.wait = t.wait + 1], hypers |-> hs,
                  print |-> <<>>]

\* after_epoch with the test self.wait > self.patience: one epoch late
ReduceLROnPlateau_after_epoch_late(self, values, hs, e) ==
    LET t == TrackerCallback_after_epoch(self, values)
    IN IF t.new_best = "True"
       THEN [self |-> [t EXCEPT !.wait = 0], hypers |-> hs, print |-> <<>>]
       ELSE IF t.wait + 1 > t.patience
            THEN LET hs2 == [g \in 1..Len(hs) |-> lr_div(hs[g], t.factor)]
                 IN [self |-> [t EXCEPT !.wait = 0], hypers |-> hs2,
                     print |-> <<ReduceLROnPlateau_message(e, hs2)>>]
            ELSE [self |-> [t EXCEPT !.wait = t.wait + 1], hypers |-> hs,
                  print |-> <<>>]

\* after_epoch that leaves wait as it is when it reduces the learning rate
ReduceLROnPlateau_after_epoch_noreset(self, values, hs, e) ==
    LET t == TrackerCallback_after_epoch(self, values)
    IN IF t.new_best = "True"
       THEN [self |-> [t EXCEPT !.wait = 0], hypers |-> hs, print |-> <<>>]
       ELSE IF t.wait + 1 >= t.patience
            THEN LET hs2 == [g \in 1..Len(hs) |-> lr_div(hs[g], t.factor)]
                 IN [self |-> [t EXCEPT !.wait = t.wait + 1], hypers |-> hs2,
                     print |-> <<ReduceLROnPlateau_message(e, hs2)>>]
            ELSE [self |-> [t EXCEPT !.wait = t.wait + 1], hypers |-> hs,
                  print |-> <<>>]

\* the result of after_epoch in epoch e: the object, opt.hypers and the lines
\* printed
ReduceLROnPlateau_after_epoch(self, values, hs, e) ==
    LET t == TrackerCallback_after_epoch(self, values)
    IN IF t.new_best = "True"
       THEN [self |-> [t EXCEPT !.wait = 0], hypers |-> hs, print |-> <<>>]
       ELSE IF t.wait + 1 >= t.patience
            THEN LET hs2 == [g \in 1..Len(hs) |-> lr_div(hs[g], t.factor)]
                 IN [self |-> [t EXCEPT !.wait = 0], hypers |-> hs2,
                     print |-> <<ReduceLROnPlateau_message(e, hs2)>>]
            ELSE [self |-> [t EXCEPT !.wait = t.wait + 1], hypers |-> hs,
                  print |-> <<>>]

(***************************************************************************)
(* Callback dispatch.  Callback.__call__(event) runs                       *)
(* getattr(self, event, noop)(): a class answers the events it has a       *)
(* method for, named as the event.                                         *)
(***************************************************************************)
TerminateOnNaNCallback_getattr(event) ==
    IF event \in {"after_batch"} THEN event ELSE "noop"

Recorder_getattr(event) ==
    IF event \in {"begin_fit", "after_batch", "after_epoch"} THEN event ELSE "noop"

EarlyStoppingCallback_getattr(event) ==
    IF event \in {"begin_fit", "after_epoch"} THEN event ELSE "noop"

\* the class with its fit-end method named after_fit, the event of the fit end
SaveModelCallback_getattr_after_fit(event) ==
    IF event \in {"begin_fit", "after_epoch"} THEN event
    ELSE IF event = "after_fit" THEN "on_train_end"
    ELSE "noop"

SaveModelCallback_getattr(event) ==
    IF event \in {"begin_fit", "after_epoch", "on_train_end"} THEN event ELSE "noop"

ReduceLROnPlateau_getattr(event) ==
    IF event \in {"begin_fit", "after_epoch"} THEN event ELSE "noop"

getattr(cb, event) ==
    CASE cb = "TerminateOnNaNCallback" -> TerminateOnNaNCallback_getattr(event)
      [] cb = "Recorder" -> Recorder_getattr(event)
      [] cb = "EarlyStoppingCallback" -> EarlyStoppingCallback_getattr(event)
      [] cb = "SaveModelCallback" -> SaveModelCallback_getattr(event)
      [] cb = "ReduceLROnPlateau" -> ReduceLROnPlateau_getattr(event)

\* the callbacks, in dispatch order, that have a handler for the event
Handlers(cbs, event) == SelectSeq(cbs, LAMBDA cb : getattr(cb, event) # "noop")

\* run_before = Recorder (TerminateOnNaNCallback), run_after = Recorder (trackers)
Trackers == {"EarlyStoppingCallback", "SaveModelCallback", "ReduceLROnPlateau"}

\* the order when the trackers do not declare run_after
sorted_by_run_trackers_free(cbs) ==
    \A i, j \in 1..Len(cbs) :
        (cbs[i] = "TerminateOnNaNCallback" /\ cbs[j] = "Recorder") => i < j

\* the order when TerminateOnNaNCallback does not declare run_before
sorted_by_run_nan_free(cbs) ==
    \A i, j \in 1..Len(cbs) :
        (cbs[i] \in Trackers /\ cbs[j] = "Recorder") => j < i

sorted_by_run(cbs) ==
    \A i, j \in 1..Len(cbs) :
        /\ (cbs[i] = "TerminateOnNaNCallback" /\ cbs[j] = "Recorder") => i < j
        /\ (cbs[i] \in Trackers /\ cbs[j] = "Recorder") => j < i

\* the dispatch orders of a set of callbacks
Orders(S) ==
    {cbs \in [1..Cardinality(S) -> S] :
        /\ \A c \in S : InSeq(c, cbs)
        /\ sorted_by_run(cbs)}

(***************************************************************************)
(* How a handler ends: it returns, raises CancelFitException, or raises an *)
(* error that fit() propagates.  In both raising cases the fit loop is     *)
(* left and only the fit-end events remain.                                *)
(***************************************************************************)
Return == pc' = pc /\ queue' = Tail(queue) /\ UNCHANGED <<exc, stopped>>

Cancel(cb) == pc' = "after_fit" /\ queue' = <<>> /\ stopped' = cb /\ UNCHANGED exc

Propagate(e) == pc' = "after_fit" /\ queue' = <<>> /\ exc' = e /\ UNCHANGED stopped

Running(cb, event) == pc = event /\ queue # <<>> /\ Head(queue) = cb

(***************************************************************************)
(* Learner.fit                                                             *)
(***************************************************************************)
Learner_fit ==
    /\ pc = "idle"
    /\ fits < arg.n_fit
    /\ fits' = fits + 1
    /\ pc' = "begin_fit"
    /\ queue' = Handlers(arg.cbs, "begin_fit")
    /\ epoch' = 0
    /\ iter' = 0
    /\ exc' = "none"
    /\ stopped' = "none"
    /\ saves' = <<>>
    /\ printed' = <<>>
    /\ left' = [es |-> [best |-> es.best, wait |-> es.wait],
                sm |-> [best |-> sm.best],
                lr |-> [best |-> lr.best, wait |-> lr.wait]]
    /\ UNCHANGED <<arg, loss, steps, model, hypers, files, recorder, es, sm, lr,
                   loads, ended>>

\* every begin_fit handler has returned: the first epoch starts
Learner_begin_train ==
    /\ pc = "begin_fit"
    /\ queue = <<>>
    /\ pc' = IF arg.n_epoch > 0 THEN "train" ELSE "after_fit"
    /\ UNCHANGED <<arg, printed, queue, fits, epoch, iter, loss, steps, model, hypers, files,
                   exc, stopped, recorder, es, sm, lr, saves, loads, ended, left>>

\* one_batch: the loss is computed, the optimizer steps, after_batch is dispatched
Learner_one_batch ==
    /\ pc = "train"
    /\ \E l \in arg.losses : loss' = l
    /\ steps' = steps + 1
    /\ model' = steps + 1
    /\ pc' = "after_batch"
    /\ queue' = Handlers(arg.cbs, "after_batch")
    /\ UNCHANGED <<arg, printed, fits, epoch, iter, hypers, files, exc, stopped, recorder,
                   es, sm, lr, saves, loads, ended, left>>

\* every after_batch handler has returned: next batch, or the epoch ends
Learner_after_batch ==
    /\ pc = "after_batch"
    /\ queue = <<>>
    /\ IF iter + 1 < arg.n_batch
       THEN /\ iter' = iter + 1
            /\ pc' = "train"
            /\ queue' = queue
       ELSE /\ iter' = iter
            /\ pc' = "after_epoch"
            /\ queue' = Handlers(arg.cbs, "after_epoch")
    /\ UNCHANGED <<arg, printed, fits, epoch, loss, steps, model, hypers, files, exc, stopped,
                   recorder, es, sm, lr, saves, loads, ended, left>>

\* every after_epoch handler has returned: next epoch, or the fit ends
Learner_after_epoch ==
    /\ pc = "after_epoch"
    /\ queue = <<>>
    /\ IF epoch + 1 < arg.n_epoch
       THEN /\ epoch' = epoch + 1
            /\ iter' = 0
            /\ pc' = "train"
       ELSE /\ epoch' = epoch
            /\ iter' = iter
            /\ pc' = "after_fit"
    /\ UNCHANGED <<arg, printed, queue, fits, loss, steps, model, hypers, files, exc, stopped,
                   recorder, es, sm, lr, saves, loads, ended, left>>

\* the events dispatched when the fit loop is left: after_cancel_fit if the
\* fit was cancelled, then after_fit
fit_end_events == IF stopped # "none" THEN <<"after_cancel_fit", "after_fit">>
                  ELSE <<"after_fit">>

\* whether a fit-end event runs SaveModelCallback.on_train_end
fit_end_runs_on_train_end ==
    /\ InSeq("SaveModelCallback", arg.cbs)
    /\ \E i \in 1..Len(fit_end_events) :
           SaveModelCallback_getattr(fit_end_events[i]) = "on_train_end"

\* learn.load(name) for the names given (none or one): the weights of the file
\* replace those in memory; a missing file raises
learn_load(names) ==
    IF names = {}
    THEN UNCHANGED <<model, exc, loads>>
    ELSE LET n == CHOOSE x \in names : TRUE
         IN /\ loads' = Append(loads, [name |-> n, found |-> is_file(files, n)])
            /\ IF is_file(files, n)
               THEN model' = files[n] /\ UNCHANGED exc
               ELSE exc' = "FileNotFoundError" /\ UNCHANGED model

\* after_cancel_fit and after_fit are dispatched and fit() returns
Learner_after_fit ==
    /\ pc = "after_fit"
    /\ IF fit_end_runs_on_train_end
       THEN /\ learn_load(SaveModelCallback_on_train_end(sm, files))
            /\ ended' = ended + 1
       ELSE UNCHANGED <<model, exc, loads, ended>>
    /\ pc' = "idle"
    /\ UNCHANGED <<arg, printed, queue, fits, epoch, iter, loss, steps, hypers, files, stopped,
                   recorder, es, sm, lr, saves, left>>

\* on_train_end called on the callback itself, after a fit
SaveModelCallback_on_train_end_call ==
    /\ pc = "idle"
    /\ fits > 0
    /\ ended < fits
    /\ InSeq("SaveModelCallback", arg.cbs)
    /\ learn_load(SaveModelCallback_on_train_end(sm, files))
    /\ ended' = ended + 1
    /\ UNCHANGED <<arg, printed, pc, queue, fits, epoch, iter, loss, steps, hypers, files,
                   stopped, recorder, es, sm, lr, saves, left>>

(***************************************************************************)
(* Recorder                                                                *)
(***************************************************************************)
Recorder_begin_fit ==
    /\ Running("Recorder", "begin_fit")
    /\ recorder' = [values |-> <<>>, losses |-> <<>>]
    /\ Return
    /\ UNCHANGED <<arg, printed, fits, epoch, iter, loss, steps, model, hypers, files,
                   es, sm, lr, saves, loads, ended, left>>

Recorder_after_batch ==
    /\ Running("Recorder", "after_batch")
    /\ recorder' = [recorder EXCEPT !.losses = Append(@, loss)]
    /\ Return
    /\ UNCHANGED <<arg, printed, fits, epoch, iter, loss, steps, model, hypers, files,
                   es, sm, lr, saves, loads, ended, left>>

\* the row of the epoch is appended to values
Recorder_after_epoch ==
    /\ Running("Recorder", "after_epoch")
    /\ \E row \in arg.rows : recorder' = [recorder EXCEPT !.values = Append(@, row)]
    /\ Return
    /\ UNCHANGED <<arg, printed, fits, epoch, iter, loss, steps, model, hypers, files,
                   es, sm, lr, saves, loads, ended, left>>

(***************************************************************************)
(* The handlers of tracker.py as steps of the fit                          *)
(***************************************************************************)
\* after_batch raises CancelFitException on a loss that is NaN only
TerminateOnNaNCallback_raises_nan(l) == isnan(l)

\* whether after_batch raises CancelFitException on the loss l
TerminateOnNaNCallback_raises(l) == isinf(l) \/ isnan(l)

TerminateOnNaNCallback_after_batch ==
    /\ Running("TerminateOnNaNCallback", "after_batch")
    /\ IF TerminateOnNaNCallback_raises(loss)
       THEN Cancel("TerminateOnNaNCallback")
       ELSE Return
    /\ UNCHANGED <<arg, printed, fits, epoch, iter, loss, steps, model, hypers, files,
                   recorder, es, sm, lr, saves, loads, ended, left>>

EarlyStoppingCallback_begin_fit ==
    /\ Running("EarlyStoppingCallback", "begin_fit")
    /\ LET r == TrackerCallback_begin_fit([es EXCEPT !.wait = 0], metric_names)
       IN /\ es' = r.self
          /\ IF r.raised # "none" THEN Propagate(r.raised) ELSE Return
    /\ UNCHANGED <<arg, printed, fits, epoch, iter, loss, steps, model, hypers, files,
                   recorder, sm, lr, saves, loads, ended, left>>

EarlyStoppingCallback_after_epoch_step ==
    /\ Running("EarlyStoppingCallback", "after_epoch")
    /\ LET r == EarlyStoppingCallback_after_epoch(es, recorder.values, epoch)
       IN /\ es' = r.self
          /\ printed' = printed \o r.print
          /\ IF r.cancel THEN Cancel("EarlyStoppingCallback") ELSE Return
    /\ UNCHANGED <<arg, fits, epoch, iter, loss, steps, model, hypers, files,
                   recorder, sm, lr, saves, loads, ended, left>>

SaveModelCallback_begin_fit ==
    /\ Running("SaveModelCallback", "begin_fit")
    /\ LET r == TrackerCallback_begin_fit(sm, metric_names)
       IN /\ sm' = r.self
          /\ IF r.raised # "none" THEN Propagate(r.raised) ELSE Return
    /\ UNCHANGED <<arg, printed, fits, epoch, iter, loss, steps, model, hypers, files,
                   recorder, es, lr, saves, loads, ended, left>>

\* learn.save(name): the weights in memory are written under the name
learn_save(names) ==
    /\ files' = [n \in DOMAIN files |-> IF n \in names THEN model ELSE files[n]]
    /\ saves' = saves \o [i \in 1..Cardinality(names) |->
                            [name |-> CHOOSE n \in names : TRUE,
                             epoch |-> epoch, model |-> model]]

SaveModelCallback_after_epoch_step ==
    /\ Running("SaveModelCallback", "after_epoch")
    /\ LET r == SaveModelCallback_after_epoch(sm, recorder.values, epoch)
       IN /\ sm' = r.self
          /\ learn_save(r.save)
    /\ Return
    /\ UNCHANGED <<arg, printed, fits, epoch, iter, loss, steps, model, hypers,
                   recorder, es, lr, loads, ended, left>>

ReduceLROnPlateau_begin_fit ==
    /\ Running("ReduceLROnPlateau", "begin_fit")
    /\ LET r == TrackerCallback_begin_fit([lr EXCEPT !.wait = 0], metric_names)
       IN /\ lr' = r.self
          /\ IF r.raised # "none" THEN Propagate(r.raised) ELSE Return
    /\ UNCHANGED <<arg, printed, fits, epoch, iter, loss, steps, model, hypers, files,
                   recorder, es, sm, saves, loads, ended, left>>

ReduceLROnPlateau_after_epoch_step ==
    /\ Running("ReduceLROnPlateau", "after_epoch")
    /\ LET r == ReduceLROnPlateau_after_epoch(lr, recorder.values, hypers, epoch)
       IN /\ lr' = r.self
          /\ hypers' = r.hypers
          /\ printed' = printed \o r.print
    /\ Return
    /\ UNCHANGED <<arg, fits, epoch, iter, loss, steps, model, files,
                   recorder, es, sm, saves, loads, ended, left>>

(***************************************************************************)
(* Scenarios                                                               *)
(***************************************************************************)
\* the column of a row the tracker of this monitor reads (1-based)
read_col(monitor) == index(Tail(metric_names), monitor) + 1

FileNames(n_epoch) ==
    {bare_name("model")} \cup {epoch_name("model", e) : e \in 0..(n_epoch - 1)}

\* learning rates as fractions: 0.1 in every group, or 0.1 and 0.01
lr_same == <<[num |-> 1, den |-> 10], [num |-> 1, den |-> 10]>>
lr0 == <<[num |-> 1, den |-> 10], [num |-> 1, den |-> 100]>>

InitWith(a, e, s, l) ==
    /\ arg = a
    /\ pc = "idle"
    /\ queue = <<>>
    /\ fits = 0
    /\ epoch = 0
    /\ iter = 0
    /\ loss = Fin(0)
    /\ steps = 0
    /\ model = 0
    /\ hypers = a.lrs
    /\ files = [n \in FileNames(a.n_epoch) |-> NoFile]
    /\ exc = "none"
    /\ stopped = "none"
    /\ recorder = [values |-> <<>>, losses |-> <<>>]
    /\ es = e
    /\ sm = s
    /\ lr = l
    /\ saves = <<>>
    /\ loads = <<>>
    /\ ended = 0
    /\ printed = <<>>
    /\ left = [es |-> [best |-> e.best, wait |-> e.wait],
               sm |-> [best |-> s.best],
               lr |-> [best |-> l.best, wait |-> l.wait]]

es_default == EarlyStoppingCallback_init(s_valid_loss, "None", 0, 1)
sm_default == SaveModelCallback_init(s_valid_loss, "None", 0, "model", FALSE)
lr_default == ReduceLROnPlateau_init(s_valid_loss, "None", 0, 1, 10)

\* the trackers' constructor arguments the scenarios draw from: a monitor
\* (comp is left to the default of its name) and a min_delta
TrackerArgs == {<<s_valid_loss, 0>>, <<s_accuracy, 1>>}

\* fit(EpochsES) with the Recorder and an EarlyStoppingCallback
InitES ==
    \E t \in TrackerArgs, p \in 1..MaxPatience :
        InitWith([cbs |-> <<"Recorder", "EarlyStoppingCallback">>,
                  n_fit |-> 1, n_epoch |-> EpochsES, n_batch |-> 1,
                  losses |-> {Fin(0)}, rows |-> RowsVarying({read_col(t[1])}),
                  lrs |-> lr0],
                 EarlyStoppingCallback_init(t[1], "None", t[2], p),
                 sm_default, lr_default)

NextES ==
    \/ Learner_fit
    \/ Learner_begin_train
    \/ Learner_one_batch
    \/ Learner_after_batch
    \/ Learner_after_epoch
    \/ Learner_after_fit
    \/ Recorder_begin_fit
    \/ Recorder_after_batch
    \/ Recorder_after_epoch
    \/ EarlyStoppingCallback_begin_fit
    \/ EarlyStoppingCallback_after_epoch_step

SpecES == InitES /\ [][NextES]_vars

\* fit(EpochsSave) with the Recorder and a SaveModelCallback
InitSave ==
    \E t \in TrackerArgs, every \in BOOLEAN :
        InitWith([cbs |-> <<"Recorder", "SaveModelCallback">>,
                  n_fit |-> 1, n_epoch |-> EpochsSave, n_batch |-> 1,
                  losses |-> {Fin(0)}, rows |-> RowsVarying({read_col(t[1])}),
                  lrs |-> lr0],
                 es_default,
                 SaveModelCallback_init(t[1], "None", t[2], "model", every),
                 lr_default)

NextSave ==
    \/ Learner_fit
    \/ Learner_begin_train
    \/ Learner_one_batch
    \/ Learner_after_batch
    \/ Learner_after_epoch
    \/ Learner_after_fit
    \/ Recorder_begin_fit
    \/ Recorder_after_batch
    \/ Recorder_after_epoch
    \/ SaveModelCallback_begin_fit
    \/ SaveModelCallback_after_epoch_step

SpecSave == InitSave /\ [][NextSave]_vars

\* fit(EpochsLR) with the Recorder and a ReduceLROnPlateau
InitLR ==
    \E t \in TrackerArgs, p \in 1..MaxPatience, f \in {2, 10}, h \in {lr_same, lr0} :
        InitWith([cbs |-> <<"Recorder", "ReduceLROnPlateau">>,
                  n_fit |-> 1, n_epoch |-> EpochsLR, n_batch |-> 1,
                  losses |-> {Fin(0)}, rows |-> RowsVarying({read_col(t[1])}),
                  lrs |-> h],
                 es_default, sm_default,
                 ReduceLROnPlateau_init(t[1], "None", t[2], p, f))

NextLR ==
    \/ Learner_fit
    \/ Learner_begin_train
    \/ Learner_one_batch
    \/ Learner_after_batch
    \/ Learner_after_epoch
    \/ Learner_after_fit
    \/ Recorder_begin_fit
    \/ Recorder_after_batch
    \/ Recorder_after_epoch
    \/ ReduceLROnPlateau_begin_fit
    \/ ReduceLROnPlateau_after_epoch_step

SpecLR == InitLR /\ [][NextLR]_vars

\* the losses a batch can have
Losses == {Fin(0), PosInf, NegInf, NaN}

\* monitors of the two trackers: both found, or one of them not in
\* metric_names[1:] (unknown, or the name of the first column)
MonitorPairs ==
    {<<t, t>> : t \in TrackerArgs}
        \cup {<<<<s_error_rate, 0>>, <<s_valid_loss, 0>>>>,
              <<<<s_train_loss, 0>>, <<s_valid_loss, 0>>>>,
              <<<<s_valid_loss, 0>>, <<s_error_rate, 0>>>>}

\* the columns the trackers of a pair read
read_cols(mp) ==
    {read_col(mp[i][1]) : i \in {j \in 1..2 : InSeq(mp[j][1], Tail(metric_names))}}

\* fit(EpochsFit) with TerminateOnNaNCallback, the Recorder, an
\* EarlyStoppingCallback and a SaveModelCallback
Init ==
    \E mp \in MonitorPairs, p \in 1..MaxPatience, every \in BOOLEAN,
       cbs \in Orders({"TerminateOnNaNCallback", "Recorder",
                       "EarlyStoppingCallback", "SaveModelCallback"}) :
        InitWith([cbs |-> cbs,
                  n_fit |-> 1, n_epoch |-> EpochsFit, n_batch |-> BatchesFit,
                  losses |-> Losses, rows |-> RowsVarying(read_cols(mp)),
                  lrs |-> lr0],
                 EarlyStoppingCallback_init(mp[1][1], "None", mp[1][2], p),
                 SaveModelCallback_init(mp[2][1], "None", mp[2][2], "model", every),
                 lr_default)

Next ==
    \/ Learner_fit
    \/ Learner_begin_train
    \/ Learner_one_batch
    \/ Learner_after_batch
    \/ Learner_after_epoch
    \/ Learner_after_fit
    \/ Recorder_begin_fit
    \/ Recorder_after_batch
    \/ Recorder_after_epoch
    \/ TerminateOnNaNCallback_after_batch
    \/ EarlyStoppingCallback_begin_fit
    \/ EarlyStoppingCallback_after_epoch_step
    \/ SaveModelCallback_begin_fit
    \/ SaveModelCallback_after_epoch_step

Spec == Init /\ [][Next]_vars

\* MaxFits calls of fit(EpochsFit) with the Recorder and the three trackers
InitFits ==
    \E t \in TrackerArgs, p \in 1..MaxPatience :
        InitWith([cbs |-> <<"Recorder", "SaveModelCallback", "ReduceLROnPlateau",
                            "EarlyStoppingCallback">>,
                  n_fit |-> MaxFits, n_epoch |-> EpochsFit, n_batch |-> 1,
                  losses |-> {Fin(0)}, rows |-> RowsOver({read_col(t[1])}, ValsFew),
                  lrs |-> lr0],
                 EarlyStoppingCallback_init(t[1], "None", t[2], p),
                 SaveModelCallback_init(t[1], "None", t[2], "model", FALSE),
                 ReduceLROnPlateau_init(t[1], "None", t[2], p, 10))

NextFits ==
    \/ Learner_fit
    \/ Learner_begin_train
    \/ Learner_one_batch
    \/ Learner_after_batch
    \/ Learner_after_epoch
    \/ Learner_after_fit
    \/ Recorder_begin_fit
    \/ Recorder_after_batch
    \/ Recorder_after_epoch
    \/ EarlyStoppingCallback_begin_fit
    \/ EarlyStoppingCallback_after_epoch_step
    \/ SaveModelCallback_begin_fit
    \/ SaveModelCallback_after_epoch_step
    \/ ReduceLROnPlateau_begin_fit
    \/ ReduceLROnPlateau_after_epoch_step

SpecFits == InitFits /\ [][NextFits]_vars

\* MaxFits calls of fit(EpochsFit) with the Recorder and a SaveModelCallback,
\* on_train_end being called on the callback after each fit
InitDirect ==
    \E t \in TrackerArgs, every \in BOOLEAN :
        InitWith([cbs |-> <<"Recorder", "SaveModelCallback">>,
                  n_fit |-> MaxFits, n_epoch |-> EpochsFit, n_batch |-> 1,
                  losses |-> {Fin(0)}, rows |-> RowsOver({read_col(t[1])}, ValsFew),
                  lrs |-> lr0],
                 es_default,
                 SaveModelCallback_init(t[1], "None", t[2], "model", every),
                 lr_default)

NextDirect ==
    \/ Learner_fit
    \/ Learner_begin_train
    \/ Learner_one_batch
    \/ Learner_after_batch
    \/ Learner_after_epoch
    \/ Learner_after_fit
    \/ Recorder_begin_fit
    \/ Recorder_after_batch
    \/ Recorder_after_epoch
    \/ SaveModelCallback_begin_fit
    \/ SaveModelCallback_after_epoch_step
    \/ SaveModelCallback_on_train_end_call

SpecDirect == InitDirect /\ [][NextDirect]_vars

\* the constructor arguments of a tracker: monitor, comp (None, np.less or
\* np.greater) and min_delta
Monitors == {s_valid_loss, s_accuracy, s_train_loss, s_error_rate, s_valid_Loss,
             s_loss_ratio}
Comps == {"None", "less", "greater"}
Deltas == {-2, 0, 1}

\* the columns the tracker of a monitor reads: none if begin_fit does not find it
cols_read(monitor) ==
    IF InSeq(monitor, Tail(metric_names)) THEN {read_col(monitor)} ELSE {}

\* fit(EpochsTrack) with the Recorder and a SaveModelCallback saving the best
\* model, built from every combination of the tracker's constructor arguments
InitTrack ==
    \E m \in Monitors, c \in Comps, d \in Deltas :
        InitWith([cbs |-> <<"Recorder", "SaveModelCallback">>,
                  n_fit |-> 1, n_epoch |-> EpochsTrack, n_batch |-> 1,
                  losses |-> {Fin(0)},
                  rows |-> RowsOver(cols_read(m), Vals \cup {NegInf}),
                  lrs |-> lr0,
                  ctor |-> [monitor |-> m, comp |-> c, min_delta |-> d]],
                 es_default,
                 SaveModelCallback_init(m, c, d, "model", FALSE),
                 lr_default)

NextTrack ==
    \/ Learner_fit
    \/ Learner_begin_train
    \/ Learner_one_batch
    \/ Learner_after_batch
    \/ Learner_after_epoch
    \/ Learner_after_fit
    \/ Recorder_begin_fit
    \/ Recorder_after_batch
    \/ Recorder_after_epoch
    \/ SaveModelCallback_begin_fit
    \/ SaveModelCallback_after_epoch_step

SpecTrack == InitTrack /\ [][NextTrack]_vars

\* fit(EpochsFit) with the Recorder and a SaveModelCallback saving the best
\* model, every column of a row being 0 or 1
InitCols ==
    \E t \in TrackerArgs :
        InitWith([cbs |-> <<"Recorder", "SaveModelCallback">>,
                  n_fit |-> 1, n_epoch |-> EpochsFit, n_batch |-> 1,
                  losses |-> {Fin(0)},
                  rows |-> RowsOver(1..NCols, {Fin(0), Fin(1)}),
                  lrs |-> lr0],
                 es_default,
                 SaveModelCallback_init(t[1], "None", t[2], "model", FALSE),
                 lr_default)

NextCols ==
    \/ Learner_fit
    \/ Learner_begin_train
    \/ Learner_one_batch
    \/ Learner_after_batch
    \/ Learner_after_epoch
    \/ Learner_after_fit
    \/ Recorder_begin_fit
    \/ Recorder_after_batch
    \/ Recorder_after_epoch
    \/ SaveModelCallback_begin_fit
    \/ SaveModelCallback_after_epoch_step

SpecCols == InitCols /\ [][NextCols]_vars

(***************************************************************************)
(* What the history of a fit says, computed from the rows alone            *)
(***************************************************************************)
\* the values a tracker has been fed in this fit, one per recorded row
fed(self) == [i \in 1..Len(recorder.values) |-> recorder.values[i][self.idx + 1]]

Prefix(V, n) == SubSeq(V, 1, n)

\* x is better than b by more than the tolerance, in the direction of comp
better(self, x, b) == comp_call(self.comp, Sub(x, self.min_delta), b)

\* the best value of the first i values of V: the last one that was better
\* than the best before it
RECURSIVE best_of(_, _, _)
best_of(self, V, i) ==
    IF i = 0
    THEN (IF self.comp = "less" THEN PosInf ELSE NegInf)
    ELSE LET b == best_of(self, V, i - 1)
         IN IF better(self, V[i], b) THEN V[i] ELSE b

\* the epochs (1-based) of V that set a new best
new_bests(self, V) ==
    {i \in 1..Len(V) : better(self, V[i], best_of(self, V, i - 1))}

Max(S) == CHOOSE x \in S : \A y \in S : y <= x

\* the number of epochs, at the end of the first j of V, none of which set a
\* new best, NB being the epochs that did
streak(NB, j) == j - Max({0} \cup {i \in NB : i <= j})

\* the after_epoch handler of cb has run for every recorded row
processed(cb) == ~(pc = "after_epoch" /\ InSeq(cb, queue))

(***************************************************************************)
(* C1: EarlyStoppingCallback with patience p >= 1 raises CancelFitException *)
(* in after_epoch of the first epoch that ends a run of p consecutive      *)
(* epochs without a new best, never earlier and never later, and nothing   *)
(* of a later epoch runs: no further batch, row or recorded loss.          *)
(***************************************************************************)
C1_StopsAtPatience ==
    LET V == fed(es)
        n == Len(V)
        NB == new_bests(es, V)
    IN /\ stopped = "EarlyStoppingCallback" =>
            /\ n = epoch + 1
            /\ streak(NB, n) >= es.patience
            /\ \A j \in 1..(n - 1) : streak(NB, j) < es.patience
            /\ pc \in {"after_fit", "idle"}
            /\ steps = (epoch + 1) * arg.n_batch
            /\ Len(recorder.losses) = (epoch + 1) * arg.n_batch
       /\ (stopped = "none" /\ es.idx >= 0 /\ processed("EarlyStoppingCallback")) =>
            \A j \in 1..n : streak(NB, j) < es.patience

\* patience=2 on valid_loss-like values [1.0, 0.9, 0.95, 0.97] (as ranks 3, 0, 1, 2):
\* stopped in the 4th epoch of a fit of 5
C1_Witness ==
    /\ stopped = "EarlyStoppingCallback"
    /\ es.patience = 2 /\ es.comp = "less" /\ es.min_delta = 0
    /\ fed(es) = <<Fin(3), Fin(0), Fin(1), Fin(2)>>
    /\ epoch = 3 /\ arg.n_epoch = 5
    /\ pc = "idle"

\* the weights in memory at the end of epoch e (0-based) of the first fit
weights_at(e) == (e + 1) * arg.n_batch

(***************************************************************************)
(* C2: SaveModelCallback with every_epoch = False updates its tracker      *)
(* after every epoch and saves the model under the bare name in exactly    *)
(* the epochs that set a new best, each save overwriting the previous one; *)
(* epochs that do not set a new best save nothing.                         *)
(***************************************************************************)
C2_SavesOnNewBest ==
    (/\ InSeq("SaveModelCallback", arg.cbs)
     /\ ~sm.every_epoch /\ sm.idx >= 0
     /\ processed("SaveModelCallback")) =>
        LET V == fed(sm)
            n == Len(V)
            NB == new_bests(sm, V)
        IN /\ sm.best = best_of(sm, V, n)
           /\ n > 0 => (sm.new_best = "True" <=> n \in NB)
           /\ Len(saves) = Cardinality(NB)
           /\ \A i \in 1..Len(saves) :
                /\ saves[i].name = bare_name(sm.fname)
                /\ saves[i].epoch + 1 \in NB
                /\ saves[i].model = weights_at(saves[i].epoch)
                /\ \A j \in 1..(i - 1) : saves[j].epoch < saves[i].epoch
           /\ files[bare_name(sm.fname)] =
                IF NB = {} THEN NoFile ELSE weights_at(Max(NB) - 1)
           /\ \A f \in DOMAIN files : f # bare_name(sm.fname) => files[f] = NoFile

\* values [0.5, 0.4, 0.6, 0.3] (as ranks 2, 1, 3, 0): saved in epochs 1, 2 and 4
C2_Witness ==
    /\ InSeq("SaveModelCallback", arg.cbs) /\ ~sm.every_epoch
    /\ sm.comp = "less" /\ sm.min_delta = 0 /\ sm.idx >= 0
    /\ pc = "idle"
    /\ fed(sm) = <<Fin(2), Fin(1), Fin(3), Fin(0)>>
    /\ Len(saves) = 3
    /\ saves[1].epoch = 0 /\ saves[2].epoch = 1 /\ saves[3].epoch = 3
    /\ files[bare_name(sm.fname)] = weights_at(3)

(***************************************************************************)
(* C8: SaveModelCallback with every_epoch = True saves the current model   *)
(* after every epoch e under the name fname_e, one checkpoint per epoch    *)
(* and none under the bare name, and leaves best and new_best as begin_fit *)
(* left them whatever the metric values are.                               *)
(***************************************************************************)
C8_EveryEpochSaves ==
    (/\ InSeq("SaveModelCallback", arg.cbs)
     /\ sm.every_epoch /\ sm.idx >= 0
     /\ processed("SaveModelCallback")) =>
        LET n == Len(recorder.values)
        IN /\ Len(saves) = n
           /\ \A i \in 1..n :
                /\ saves[i].name = epoch_name(sm.fname, i - 1)
                /\ saves[i].epoch = i - 1
                /\ saves[i].model = weights_at(i - 1)
           /\ \A e \in 0..(arg.n_epoch - 1) :
                files[epoch_name(sm.fname, e)] = IF e < n THEN weights_at(e) ELSE NoFile
           /\ files[bare_name(sm.fname)] = NoFile
           /\ sm.best = (IF sm.comp = "less" THEN PosInf ELSE NegInf)
           /\ sm.new_best = "unset"

\* a fit in every_epoch mode whose values improve and then do not
C8_Witness ==
    /\ InSeq("SaveModelCallback", arg.cbs) /\ sm.every_epoch /\ sm.idx >= 0
    /\ pc = "idle"
    /\ sm.comp = "less"
    /\ fed(sm) = <<Fin(2), Fin(1), Fin(3), Fin(0)>>
    /\ Len(saves) = 4
    /\ files[epoch_name(sm.fname, 3)] = weights_at(3)

(***************************************************************************)
(* C5: in every after_epoch of ReduceLROnPlateau in which the patience     *)
(* counter triggers (no new best, and wait reaches patience) the learning  *)
(* rate of every hyperparameter group is divided by factor, wait becomes 0 *)
(* and the fit goes on; in every other one all learning rates stay as they *)
(* are.  The callback never cancels the fit, which runs all its epochs.    *)
(***************************************************************************)
C5_ReducesEveryGroup ==
    /\ [](/\ stopped = "none"
          /\ (pc = "idle" /\ fits = 1) => Len(recorder.values) = arg.n_epoch)
    /\ [][Running("ReduceLROnPlateau", "after_epoch") =>
            LET V == fed(lr)
                trig == /\ Len(V) \notin new_bests(lr, V)
                        /\ lr.wait + 1 >= lr.patience
            IN IF trig
               THEN /\ Len(hypers') = Len(hypers)
                    /\ \A g \in 1..Len(hypers) :
                         /\ hypers'[g].num = hypers[g].num
                         /\ hypers'[g].den = hypers[g].den * lr.factor
                    /\ lr'.wait = 0
                    /\ pc' = "after_epoch" /\ stopped' = "none" /\ exc' = "none"
               ELSE hypers' = hypers]_vars

\* patience=1, factor=10, lr=0.1 in every group, values [1.0, 1.0]: lr is 0.01
\* in every group after the second epoch and the fit goes on
C5_Witness ==
    /\ InSeq("ReduceLROnPlateau", arg.cbs)
    /\ lr.patience = 1 /\ lr.factor = 10 /\ arg.lrs = lr_same /\ lr.idx >= 0
    /\ fed(lr) = <<Fin(1), Fin(1)>>
    /\ processed("ReduceLROnPlateau")
    /\ \A g \in 1..Len(hypers) : hypers[g] = [num |-> 1, den |-> 100]
    /\ lr.wait = 0
    /\ pc = "after_epoch" /\ stopped = "none"

registered(cb) == InSeq(cb, arg.cbs)

finite(x) == ~isinf(x) /\ ~isnan(x)

(***************************************************************************)
(* C3: with a SaveModelCallback in best-only mode, once fit() has returned *)
(* and a checkpoint exists under the bare name, the weights in memory are  *)
(* those of the checkpoint (the model of the best epoch): the fit-end      *)
(* event reloads it.                                                       *)
(***************************************************************************)
C3_BestModelInMemory ==
    (/\ registered("SaveModelCallback") /\ ~sm.every_epoch
     /\ pc = "idle" /\ fits > 0 /\ exc = "none"
     /\ is_file(files, bare_name(sm.fname))) =>
        model = files[bare_name(sm.fname)]

(***************************************************************************)
(* C6: TerminateOnNaNCallback cancels the fit at the first batch whose     *)
(* loss is infinite or NaN and at no other: every earlier loss was finite, *)
(* no later batch runs and no other after_batch handler sees that loss; a  *)
(* finite loss never makes it cancel, and no loss that is not finite gets  *)
(* past it.                                                                *)
(***************************************************************************)
C6_StopsAtFirstNonFinite ==
    /\ stopped = "TerminateOnNaNCallback" =>
        /\ ~finite(loss)
        /\ \A i \in 1..Len(recorder.losses) : finite(recorder.losses[i])
        /\ Len(recorder.losses) = steps - 1
        /\ steps = epoch * arg.n_batch + iter + 1
        /\ Len(recorder.values) = epoch
        /\ pc \in {"after_fit", "idle"}
    /\ (/\ registered("TerminateOnNaNCallback")
        /\ stopped # "TerminateOnNaNCallback"
        /\ steps > 0
        /\ ~(pc = "after_batch" /\ InSeq("TerminateOnNaNCallback", queue))) =>
        /\ finite(loss)
        /\ \A i \in 1..Len(recorder.losses) : finite(recorder.losses[i])

\* losses [1.0, 2.0, NaN, 3.0] (the finite ones as 0): cancelled at the third
\* batch, the fourth never runs
C6_Witness ==
    /\ stopped = "TerminateOnNaNCallback"
    /\ recorder.losses = <<Fin(0), Fin(0)>>
    /\ loss = NaN
    /\ steps = 3
    /\ arg.n_epoch * arg.n_batch >= 4
    /\ pc = "idle"

(***************************************************************************)
(* C7: a fit cancelled by TerminateOnNaNCallback or EarlyStoppingCallback  *)
(* ends with the weights of the last optimizer step in memory and the      *)
(* optimizer's hyperparameters as training left them: nothing is rolled    *)
(* back or reloaded, also when a best-only SaveModelCallback has saved a   *)
(* checkpoint in that fit.                                                 *)
(***************************************************************************)
C7_NoRollbackOnAbort ==
    stopped # "none" =>
        /\ model = steps
        /\ hypers = arg.lrs
        /\ loads = <<>>
        /\ pc \in {"after_fit", "idle"}

\* cancelled on a NaN loss after a checkpoint of other weights was saved
C7_Witness ==
    /\ stopped = "TerminateOnNaNCallback"
    /\ pc = "idle"
    /\ registered("SaveModelCallback") /\ ~sm.every_epoch
    /\ saves # <<>>
    /\ is_file(files, bare_name(sm.fname))
    /\ files[bare_name(sm.fname)] # model

(***************************************************************************)
(* C9: a tracker whose monitor is not among metric_names[1:] makes         *)
(* begin_fit raise, so fit() fails before any batch or epoch: no           *)
(* after_epoch of the tracker runs; the error is raised nowhere else, and  *)
(* with every monitor among metric_names[1:] begin_fit raises nothing.     *)
(***************************************************************************)
unknown_monitor(self) == ~InSeq(self.monitor, Tail(metric_names))

C9_ConfigErrorAtFitStart ==
    LET bad == {cb \in {"EarlyStoppingCallback", "SaveModelCallback"} :
                   /\ registered(cb)
                   /\ unknown_monitor(IF cb = "EarlyStoppingCallback" THEN es ELSE sm)}
    IN /\ bad # {} =>
            /\ pc \in {"idle", "begin_fit", "after_fit"}
            /\ steps = 0
            /\ recorder.values = <<>>
            /\ saves = <<>>
            /\ \A cb \in bad :
                 (IF cb = "EarlyStoppingCallback" THEN es ELSE sm).new_best = "unset"
            /\ (fits > 0 /\ pc \in {"after_fit", "idle"}) => exc = "AssertionError"
       /\ bad = {} => exc = "none"
       /\ exc # "none" => pc \in {"after_fit", "idle"} /\ steps = 0

\* the monitor is the name of the first column: fit() has failed at begin_fit
C9_Witness ==
    /\ registered("EarlyStoppingCallback")
    /\ es.monitor = s_train_loss
    /\ exc = "AssertionError"
    /\ pc = "idle" /\ fits = 1
    /\ steps = 0

(***************************************************************************)
(* C4: the reload at the end of a fit is attempted only in best-only mode  *)
(* and only for a checkpoint that exists under the bare name: when none    *)
(* was ever saved on_train_end loads nothing and raises nothing, and in    *)
(* every_epoch mode it never loads.  on_train_end is exercised here by     *)
(* calling it after each fit.                                              *)
(***************************************************************************)
C4_ReloadOnlyIfSaved ==
    /\ exc # "FileNotFoundError"
    /\ \A i \in 1..Len(loads) :
         /\ loads[i].name = bare_name(sm.fname)
         /\ loads[i].found
    /\ Len(loads) <= ended
    /\ sm.every_epoch => loads = <<>>
    /\ ~is_file(files, bare_name(sm.fname)) => loads = <<>>
    /\ (~sm.every_epoch /\ pc = "idle" /\ ended > 0 /\ ended = fits
        /\ is_file(files, bare_name(sm.fname))) => loads # <<>>

\* a fit in best-only mode in which no epoch set a new best: on_train_end has
\* run, nothing was loaded and nothing raised
C4_Witness ==
    /\ ~sm.every_epoch
    /\ fits = 1 /\ pc = "idle" /\ ended = 1
    /\ Len(recorder.values) = arg.n_epoch
    /\ saves = <<>>
    /\ ~is_file(files, bare_name(sm.fname))
    /\ loads = <<>>
    /\ exc = "none"

(***************************************************************************)
(* C10: begin_fit resets the tracking state of every tracker at the start  *)
(* of every fit, whatever the previous fit left: best is +inf (np.less) or *)
(* -inf (np.greater) and wait is 0.  Within a fit best and wait are        *)
(* carried from epoch to epoch, so that they, and the decisions taken      *)
(* (cancel, save), depend on the rows of this fit alone: a fit fed the     *)
(* same rows as an earlier one decides the same.                           *)
(***************************************************************************)
init_best(self) == IF self.comp = "less" THEN PosInf ELSE NegInf

\* wait of ReduceLROnPlateau after the first j values, NB being the epochs
\* that set a new best: back to 0 on a new best and when it reaches patience
RECURSIVE plateau_wait(_, _, _)
plateau_wait(NB, p, j) ==
    IF j = 0 \/ j \in NB
    THEN 0
    ELSE LET w == plateau_wait(NB, p, j - 1) + 1
         IN IF w >= p THEN 0 ELSE w

in_fit == fits > 0 /\ pc \in {"train", "after_batch", "after_epoch", "after_fit", "idle"}

C10_ResetAtEveryFit ==
    in_fit =>
       /\ recorder.values = <<>> =>
            /\ es.best = init_best(es) /\ es.wait = 0
            /\ sm.best = init_best(sm)
            /\ lr.best = init_best(lr) /\ lr.wait = 0
       /\ processed("EarlyStoppingCallback") =>
            LET V == fed(es)
                NB == new_bests(es, V)
            IN /\ es.best = best_of(es, V, Len(V))
               /\ es.wait = streak(NB, Len(V))
               /\ stopped = "EarlyStoppingCallback" <=> streak(NB, Len(V)) >= es.patience
       /\ processed("SaveModelCallback") =>
            LET V == fed(sm)
            IN /\ sm.best = best_of(sm, V, Len(V))
               /\ Len(saves) = Cardinality(new_bests(sm, V))
       /\ processed("ReduceLROnPlateau") =>
            LET V == fed(lr)
            IN /\ lr.best = best_of(lr, V, Len(V))
               /\ lr.wait = plateau_wait(new_bests(lr, V), lr.patience, Len(V))

\* the second fit has begun: the first left a finite best and a wait of 1 or
\* more, and both are reset
C10_Witness ==
    /\ fits = 2 /\ pc = "train" /\ recorder.values = <<>>
    /\ left.es.best = Fin(0) /\ left.es.wait >= 1
    /\ left.lr.best = Fin(0) /\ left.sm.best = Fin(0)
    /\ es.best = PosInf /\ es.wait = 0

(***************************************************************************)
(* C11: a tracker built without comp compares with np.less when its        *)
(* monitor has the four characters l, o, s, s in a row (lower case) and    *)
(* with np.greater otherwise; a comp given to the constructor is kept      *)
(* whatever the monitor is called.                                         *)
(***************************************************************************)
has_loss(name) ==
    \E i \in 1..(Len(name) - 3) :
        name[i] = "l" /\ name[i + 1] = "o" /\ name[i + 2] = "s" /\ name[i + 3] = "s"

C11_DefaultDirection ==
    LET c == arg.ctor
    IN /\ c.comp = "None" =>
            sm.comp = (IF has_loss(c.monitor) THEN "less" ELSE "greater")
       /\ c.comp # "None" => sm.comp = c.comp

\* a tracker of accuracy built without comp has begun a fit: it maximises
C11_Witness ==
    /\ arg.ctor.monitor = s_accuracy /\ arg.ctor.comp = "None"
    /\ pc = "train"
    /\ sm.comp = "greater" /\ sm.best = NegInf

(***************************************************************************)
(* C12: the epoch-end update of a tracker built with min_delta d takes the *)
(* value read as an improvement iff value < best - d when it minimises and *)
(* iff value > best + d when it maximises; then best becomes the value and *)
(* new_best True, otherwise best stays and new_best becomes False.         *)
(***************************************************************************)
exceeds(self, d, val) ==
    IF self.comp = "less"
    THEN np_less(val, Sub(self.best, d))
    ELSE np_less(Sub(self.best, 0 - d), val)

C12_ImprovementByTolerance ==
    [][Running("SaveModelCallback", "after_epoch") =>
         LET val == Last(recorder.values)[sm.idx + 1]
         IN IF exceeds(sm, arg.ctor.min_delta, val)
            THEN sm'.best = val /\ sm'.new_best = "True"
            ELSE sm'.best = sm.best /\ sm'.new_best = "False"]_vars

\* min_delta 1 when minimising: after 2, the value 1 is not an improvement
C12_Witness ==
    /\ arg.ctor.min_delta = 1 /\ sm.comp = "less"
    /\ fed(sm) = <<Fin(2), Fin(1)>>
    /\ processed("SaveModelCallback")
    /\ sm.best = Fin(2) /\ sm.new_best = "False"

(***************************************************************************)
(* C13: within a fit, a strictly improving sequence of finite values gives *)
(* new_best True at every update (each value strictly better than the one  *)
(* before it, in the direction of comp).                                   *)
(***************************************************************************)
updated ==
    /\ fits > 0 /\ exc = "none" /\ sm.idx >= 0
    /\ recorder.values # <<>>
    /\ processed("SaveModelCallback")

C13_StrictlyImproving ==
    updated =>
        LET V == fed(sm)
        IN (/\ \A i \in 1..Len(V) : V[i].k = "fin"
            /\ \A i \in 2..Len(V) : comp_call(sm.comp, V[i], V[i - 1]))
           => sm.new_best = "True"

(***************************************************************************)
(* C13 as it holds: a sequence in which every value is better than the one *)
(* before it by more than min_delta, the first one better than the initial *)
(* infinity, gives new_best True at every update; a sequence in which      *)
(* every value after the first is equal to or worse than the first,        *)
(* min_delta taken into account, gives new_best False at every update      *)
(* after the first.                                                        *)
(***************************************************************************)
\* x >= y on floats
ge(x, y) == np_less(y, x) \/ (x = y /\ ~isnan(x))

\* x is equal to or worse than b once the tolerance is taken off
not_better(self, x, b) ==
    IF self.comp = "less"
    THEN ge(Sub(x, self.min_delta), b)
    ELSE ge(b, Sub(x, self.min_delta))

C13_ImprovingByTolerance ==
    updated =>
        LET V == fed(sm)
            n == Len(V)
        IN /\ (\A i \in 1..n :
                  better(sm, V[i], IF i = 1 THEN init_best(sm) ELSE V[i - 1]))
              => sm.new_best = "True"
           /\ (n >= 2 /\ \A i \in 2..n : not_better(sm, V[i], V[1]))
              => sm.new_best = "False"

\* 2, 1, 0 when minimising with min_delta 0: the third update is a new best
C13_Witness ==
    /\ updated
    /\ sm.comp = "less" /\ sm.min_delta = 0
    /\ fed(sm) = <<Fin(2), Fin(1), Fin(0)>>
    /\ sm.new_best = "True" /\ sm.best = Fin(0)

(***************************************************************************)
(* C14: in the after_epoch of EarlyStoppingCallback and ReduceLROnPlateau  *)
(* an epoch that improves sets wait to 0 whatever it was and triggers      *)
(* nothing; an epoch that does not improve counts wait + 1, and the        *)
(* callback triggers (the fit is cancelled, the learning rates are         *)
(* divided) iff that count has reached patience.  ReduceLROnPlateau then   *)
(* sets wait back to 0.                                                    *)
(***************************************************************************)
\* the last recorded row sets a new best for the tracker
improves(self) == Len(recorder.values) \in new_bests(self, fed(self))

epoch_named == Last(printed).text[2]

C15_NamesLastImprovement ==
    stopped = "EarlyStoppingCallback" =>
        LET NB == new_bests(es, fed(es))
        IN /\ printed # <<>>
           /\ NB # {}
           /\ epoch_named = Max(NB) - 1

(***************************************************************************)
(* C15 as it holds: when EarlyStoppingCallback cancels the fit it prints   *)
(* one message; if some epoch of this fit set a new best the message names *)
(* the index of the last such epoch, and if none did it names -1.  A fit   *)
(* it does not cancel prints no message.                                   *)
(***************************************************************************)
C15_NamesLastImprovementIfAny ==
    LET NB == new_bests(es, fed(es))
    IN /\ stopped = "EarlyStoppingCallback" =>
            /\ Len(printed) = 1
            /\ printed[1].by = "EarlyStoppingCallback"
            /\ epoch_named = epoch - es.wait
            /\ epoch_named = (IF NB = {} THEN -1 ELSE Max(NB) - 1)
       /\ stopped # "EarlyStoppingCallback" => printed = <<>>

\* patience 2 on the values 3, 0, 1, 2: the fit is cancelled in epoch 3 and the
\* message names epoch 1
C15_Witness ==
    /\ stopped = "EarlyStoppingCallback"
    /\ es.patience = 2 /\ es.comp = "less" /\ es.min_delta = 0
    /\ fed(es) = <<Fin(3), Fin(0), Fin(1), Fin(2)>>
    /\ epoch = 3
    /\ printed = <<EarlyStoppingCallback_message(1)>>

(***************************************************************************)
(* C16: the value a tracker compares at the end of an epoch is the value   *)
(* of its monitor in the row of that epoch, the rows being indexed as      *)
(* metric_names is: best and new_best are those of the monitor's column.   *)
(***************************************************************************)
\* the column of the rows that holds the metric called name (1-based)
column_of(name) == index(metric_names, name) + 1

C16_ReadsMonitoredColumn ==
    updated =>
        LET V == [i \in 1..Len(recorder.values) |->
                     recorder.values[i][column_of(sm.monitor)]]
        IN /\ sm.best = best_of(sm, V, Len(V))
           /\ sm.new_best = "True" <=> Len(V) \in new_bests(sm, V)

(***************************************************************************)
(* C17: best and new_best of a tracker change only in its own handlers:    *)
(* begin_fit, and after_epoch once per epoch, which runs when the Recorder *)
(* has appended the row of the epoch.  No after_batch handler and no       *)
(* handler of another callback changes them, and when the epoch ends the   *)
(* tracker has taken exactly the rows recorded so far, one update each.    *)
(***************************************************************************)
state_of(self) == <<self.best, self.new_best>>

\* the tracker has updated once for each of the rows of the fit
once_per_row(self) ==
    LET V == fed(self)
    IN /\ self.best = best_of(self, V, Len(V))
       /\ self.new_best = "True" <=> Len(V) \in new_bests(self, V)

C17_UpdatedOncePerEpoch ==
    /\ [](/\ (pc = "after_epoch" /\ queue # <<>> /\ Head(queue) \in Trackers) =>
                /\ Len(recorder.values) = epoch + 1
                /\ \A i, j \in 1..Len(queue) : queue[i] = queue[j] => i = j
          /\ (pc = "after_epoch" /\ queue = <<>>) =>
                /\ Len(recorder.values) = epoch + 1
                /\ once_per_row(es)
                /\ IF sm.every_epoch
                   THEN state_of(sm) = <<init_best(sm), "unset">>
                   ELSE once_per_row(sm))
    /\ [][/\ state_of(es)' # state_of(es) =>
                \/ Running("EarlyStoppingCallback", "begin_fit")
                \/ Running("EarlyStoppingCallback", "after_epoch")
          /\ state_of(sm)' # state_of(sm) =>
                \/ Running("SaveModelCallback", "begin_fit")
                \/ Running("SaveModelCallback", "after_epoch")]_vars

\* the second epoch has ended after two batches each: both trackers have
\* taken the two rows, the first a new best and the second not
C17_Witness ==
    /\ pc = "after_epoch" /\ queue = <<>> /\ epoch = 1
    /\ steps = 2 * arg.n_batch /\ arg.n_batch >= 2
    /\ ~sm.every_epoch
    /\ es.patience = 2
    /\ fed(es) = <<Fin(0), Fin(1)>> /\ fed(sm) = <<Fin(0), Fin(1)>>
    /\ state_of(es) = <<Fin(0), "False">>
    /\ state_of(sm) = <<Fin(0), "False">>

begun(cb) == fits > 0 /\ ~(pc = "begin_fit" /\ InSeq(cb, queue))

C19_WaitWithinPatience ==
    /\ begun("EarlyStoppingCallback") =>
         /\ 0 <= es.wait /\ es.wait <= es.patience
         /\ es.wait = es.patience <=> stopped = "EarlyStoppingCallback"
    /\ begun("ReduceLROnPlateau") =>
         /\ 0 <= lr.wait /\ lr.wait < lr.patience

\* patience 2 and two epochs without improvement: ReduceLROnPlateau has divided
\* the learning rates and is back at 0, EarlyStoppingCallback has cancelled the
\* fit with wait = patience
C19_Witness ==
    /\ es.patience = 2 /\ lr.patience = 2
    /\ stopped = "EarlyStoppingCallback"
    /\ es.wait = 2
    /\ lr.wait = 0
    /\ hypers # arg.lrs

(***************************************************************************)
(* C20: within a fit best is the initial infinity or one of the values the *)
(* tracker has read in this fit; for a tracker built with min_delta >= 0   *)
(* every change of best by an epoch is strictly in the direction of comp   *)
(* (down for np.less, up for np.greater); and a finite value in the first  *)
(* epoch always sets a new best.                                           *)
(***************************************************************************)
C20_BestWithinFit ==
    /\ [](/\ (begun("SaveModelCallback") /\ sm.idx < 0) => sm.best = init_best(sm)
          /\ (begun("SaveModelCallback") /\ sm.idx >= 0) =>
                LET V == fed(sm)
                IN \/ sm.best = init_best(sm)
                   \/ \E i \in 1..Len(V) : sm.best = V[i]
          /\ (updated /\ fed(sm)[1].k = "fin") =>
                /\ 1 \in new_bests(sm, fed(sm))
                /\ sm.best # init_best(sm)
                /\ Len(recorder.values) = 1 => sm.new_best = "True")
    /\ [][(/\ arg.ctor.min_delta >= 0
           /\ Running("SaveModelCallback", "after_epoch")
           /\ sm'.best # sm.best)
          => comp_call(sm.comp, sm'.best, sm.best)]_vars

\* min_delta 1 when maximising: 0, 2, 3 moves best from -inf to 0 and to 2, and
\* 3 does not exceed 2 by more than 1
C20_Witness ==
    /\ updated
    /\ arg.ctor.min_delta = 1 /\ sm.comp = "greater"
    /\ fed(sm) = <<Fin(0), Fin(2), Fin(3)>>
    /\ sm.best = Fin(2) /\ sm.new_best = "False"

====
